---------------------------- MODULE Spec2Model ----------------------------
(***************************************************************************)
(* A model of the CSS-like selector engine of qualifier.py: the selector   *)
(* parser (parse_selector and the functions below it) and the tree matcher *)
(* (query_selector_all and the functions below it).                        *)
(*                                                                         *)
(* Strings are sequences of one-character strings.  A selector chain, a    *)
(* linked list of SelectorChain objects in the source, is the sequence of  *)
(* its terms, head first: next_selector of the term at index i is the term *)
(* at index i+1, and the empty sequence is None.  A function that can      *)
(* raise returns a record [err, val]; err = "" means it returned val.      *)
(***************************************************************************)
EXTENDS Integers, Sequences, FiniteSets, TLC

(***************************************************************************)
(* Characters and strings                                                  *)
(***************************************************************************)
Chars(s) == [i \in 1..Len(s) |-> SubSeq(s, i, i)]

Letters ==
    {"a", "b", "c", "d", "e", "f", "g", "h", "i", "j", "k", "l", "m",
     "n", "o", "p", "q", "r", "s", "t", "u", "v", "w", "x", "y", "z"}

Digits == {"0", "1", "2", "3", "4", "5", "6", "7", "8", "9"}

Whitespace == {" ", "\t"}

\* \w of the regular expressions
IsWord(c) == c \in Letters \cup Digits \cup {"_"}

\* [-a-zA-Z], the first character of a class or an id
IsNameStart(c) == c \in Letters \cup {"-"}

\* [-\w], the later characters of a class or an id
IsNameChar(c) == IsWord(c) \/ c = "-"

\* the {0,100} and {1,100} repetition limits of the patterns
RepeatLimit == 100

Min(a, b) == IF a < b THEN a ELSE b

\* the character classes the patterns repeat over
InClass(c, cls) ==
    CASE cls = "space"   -> c \in Whitespace                 \* \s
      [] cls = "word"    -> IsWord(c)                        \* \w
      [] cls = "name"    -> IsNameChar(c)                    \* [-\w]
      [] cls = "type"    -> c \in Letters \cup {"-"}         \* [a-zA-Z\-]
      [] cls = "noparen" -> c # ")"                          \* [^)]
      [] cls = "any"     -> c # "\n"                         \* .
      [] cls = "nospace" -> c \notin Whitespace

\* the length of the longest run of characters of class cls that starts at
\* index i of s (0 when s[i] is not in the class or i is past the end)
RECURSIVE RunLen(_, _, _)
RunLen(s, i, cls) ==
    IF i > Len(s) \/ ~InClass(s[i], cls) THEN 0 ELSE 1 + RunLen(s, i + 1, cls)

(***************************************************************************)
(* Normalising and splitting (the three separator patterns)                *)
(***************************************************************************)
\* _SPACE_PATTERN.sub(" ", s): every maximal run of whitespace becomes one
\* space
RECURSIVE SpaceSub(_, _)
SpaceSub(s, i) ==
    IF i > Len(s) THEN <<>>
    ELSE LET r == RunLen(s, i, "space")
         IN  IF r > 0 THEN <<" ">> \o SpaceSub(s, i + r)
             ELSE <<s[i]>> \o SpaceSub(s, i + 1)

\* a match of \s*SEP\s* that starts at index i of s: 0 when there is none,
\* else the index just after the match
SepMatchEnd(s, i, sep) ==
    LET j == i + RunLen(s, i, "space")
    IN  IF j <= Len(s) /\ s[j] = sep
        THEN j + 1 + RunLen(s, j + 1, "space")
        ELSE 0

\* _CHILD_PATTERN.sub(" > ", s): every match of \s*>\s* becomes " > "
RECURSIVE ChildSub(_, _)
ChildSub(s, i) ==
    IF i > Len(s) THEN <<>>
    ELSE LET e == SepMatchEnd(s, i, ">")
         IN  IF e > 0 THEN <<" ", ">", " ">> \o ChildSub(s, e)
             ELSE <<s[i]>> \o ChildSub(s, i + 1)

\* normalize_selector_chain without the padding of `>`
normalize_selector_chain_spaces(selector) == SpaceSub(selector, 1)

normalize_selector_chain(selector) ==
    LET spaced_selector == SpaceSub(selector, 1)
    IN  ChildSub(spaced_selector, 1)

\* str.split(): the maximal runs of non-whitespace characters, in order
RECURSIVE StrSplit(_, _)
StrSplit(s, i) ==
    IF i > Len(s) THEN <<>>
    ELSE LET r == RunLen(s, i, "nospace")
         IN  IF r > 0 THEN <<SubSeq(s, i, i + r - 1)>> \o StrSplit(s, i + r)
             ELSE StrSplit(s, i + 1)

\* _COMMA_PATTERN.split(s): the pieces of s between the matches of \s*,\s*
\* (empty pieces are kept); start is the index where the current piece began
RECURSIVE CommaSplit(_, _, _)
CommaSplit(s, start, i) ==
    IF i > Len(s) THEN <<SubSeq(s, start, Len(s))>>
    ELSE LET e == SepMatchEnd(s, i, ",")
         IN  IF e > 0 THEN <<SubSeq(s, start, i - 1)>> \o CommaSplit(s, e, e)
             ELSE CommaSplit(s, start, i + 1)

(***************************************************************************)
(* int(): the base-10 integer literals Python accepts                      *)
(***************************************************************************)
DigitVal(c) ==
    CASE c = "0" -> 0 [] c = "1" -> 1 [] c = "2" -> 2 [] c = "3" -> 3
      [] c = "4" -> 4 [] c = "5" -> 5 [] c = "6" -> 6 [] c = "7" -> 7
      [] c = "8" -> 8 [] c = "9" -> 9

\* digits with single underscores between them, and nothing else
IsDigitString(s) ==
    /\ Len(s) > 0
    /\ \A i \in 1..Len(s) :
          \/ s[i] \in Digits
          \/ s[i] = "_" /\ i > 1 /\ i < Len(s)
                        /\ s[i - 1] \in Digits /\ s[i + 1] \in Digits

RECURSIVE DigitsVal(_, _, _)
DigitsVal(s, i, acc) ==
    IF i > Len(s) THEN acc
    ELSE IF s[i] = "_" THEN DigitsVal(s, i + 1, acc)
    ELSE DigitsVal(s, i + 1, 10 * acc + DigitVal(s[i]))

\* int(s): err is "ValueError" for a string that is no integer literal
PyInt(s) ==
    LET signed == Len(s) > 0 /\ s[1] \in {"+", "-"}
        body   == IF signed THEN Tail(s) ELSE s
    IN  IF ~IsDigitString(body) THEN [err |-> "ValueError", val |-> 0]
        ELSE [err |-> "",
              val |-> IF signed /\ s[1] = "-"
                      THEN 0 - DigitsVal(body, 1, 0)
                      ELSE DigitsVal(body, 1, 0)]

(***************************************************************************)
(* The selector data model                                                 *)
(***************************************************************************)
\* PseudoClassType; "none" stands for a pseudo_class of None
PseudoClassType == {"first-child", "last-child", "nth-child", "not"}

\* PseudoClass(type, argument): n is the integer argument of nth-child, arg
\* the SelectorChain argument of not
NoPseudoClass == [type |-> "none", n |-> 0, arg |-> <<>>]

PseudoClass(type, n, arg) == [type |-> type, n |-> n, arg |-> arg]

\* SelectorChain(): one term with its default field values; the filter dict
\* is the pair of its two possible keys
SelectorChain ==
    [tag_name             |-> <<>>,
     filter               |-> [has_class |-> FALSE, class |-> {},
                               has_id |-> FALSE, id |-> <<>>],
     relation_to_previous |-> "DESCENDANT",
     pseudo_class         |-> NoPseudoClass]

Raise(e, v) == [err |-> e, val |-> v]
Return(v) == [err |-> "", val |-> v]

(***************************************************************************)
(* The parser                                                              *)
(***************************************************************************)
RECURSIVE parse_selector_chain(_)
RECURSIVE ParseChainTokens(_, _, _)
RECURSIVE ScanSelectorToken(_, _, _)
RECURSIVE ScanPseudoClass(_, _, _)

\* the type of a pseudo-class token as a PseudoClassType, "" when
\* PseudoClassType(...) raises ValueError
PseudoTypeOf(t) ==
    IF \E k \in PseudoClassType : t = Chars(k)
    THEN CHOOSE k \in PseudoClassType : t = Chars(k)
    ELSE ""

\* the optional group "argument" that starts at index j of s, alen being
\* the length of the run of [^)] after the parenthesis: with the group,
\* inner is argument[1:-1]; end is the index after the match
PseudoArgumentAt(s, j, alen) ==
    IF /\ alen >= 1
       /\ alen <= RepeatLimit
       /\ j + 1 + alen <= Len(s)
       /\ s[j + 1 + alen] = ")"
    THEN [has_arg |-> TRUE, inner |-> SubSeq(s, j + 1, j + alen),
          end |-> j + alen + 2]
    ELSE [has_arg |-> FALSE, inner |-> <<>>, end |-> j]

\* the match of _PSEUDO_CLASS_TOKEN_PATTERN at index i of s whose group
\* "type" has tlen characters (no match when tlen = 0 or s[i] is no colon)
PseudoTokenOf(s, i, tlen) ==
    [matched  |-> s[i] = ":" /\ tlen > 0,
     type     |-> PseudoTypeOf(SubSeq(s, i + 1, i + tlen)),
     argument |-> PseudoArgumentAt(s, i + 1 + tlen,
                      IF i + 1 + tlen <= Len(s) /\ s[i + 1 + tlen] = "("
                      THEN RunLen(s, i + 2 + tlen, "noparen") ELSE 0)]

PseudoTokenAt(s, i) ==
    PseudoTokenOf(s, i, Min(RunLen(s, i + 1, "type"), RepeatLimit))

\* int(argument[1:-1]) as the argument of nth-child
NthChildArgument(n) ==
    IF n.err # "" THEN Raise(n.err, NoPseudoClass)
    ELSE Return(PseudoClass("nth-child", n.val, <<>>))

\* parse_selector_chain(argument[1:-1]) as the argument of not
NotArgument(c) ==
    IF c.err # "" THEN Raise(c.err, NoPseudoClass)
    ELSE Return(PseudoClass("not", 0, c.val))

\* the body of the loop of parse_pseudo_class for a match with the given
\* type and argument; cur is the PseudoClass the pair (token_type,
\* argument) stands for so far
PseudoClassStep(type, argument, cur) ==
    CASE type = "" -> Return(cur)
      [] type = "nth-child" ->
            IF ~argument.has_arg THEN Raise("TypeError", NoPseudoClass)
            ELSE NthChildArgument(PyInt(argument.inner))
      [] type = "not" ->
            IF ~argument.has_arg THEN Raise("TypeError", NoPseudoClass)
            ELSE NotArgument(parse_selector_chain(argument.inner))
      [] OTHER -> Return(PseudoClass(type, 0, <<>>))

\* the loop of parse_pseudo_class goes on at index i unless step raised
PseudoClassNext(s, i, step) ==
    IF step.err # "" THEN step ELSE ScanPseudoClass(s, i, step.val)

PseudoClassAt(s, i, tok, cur) ==
    IF tok.matched
    THEN PseudoClassNext(s, tok.argument.end,
                         PseudoClassStep(tok.type, tok.argument, cur))
    ELSE PseudoClassNext(s, i + 1, Return(cur))

\* the loop of parse_pseudo_class over the matches of
\* _PSEUDO_CLASS_TOKEN_PATTERN from index i on
ScanPseudoClass(s, i, cur) ==
    IF i > Len(s) THEN Return(cur)
    ELSE PseudoClassAt(s, i, PseudoTokenAt(s, i), cur)

parse_pseudo_class(pseudo_class) == ScanPseudoClass(pseudo_class, 1, NoPseudoClass)

\* the match of _TOKEN_PATTERN at index i of s, c being s[i] and next the
\* character after it: group is the name of the group that matched ("" if
\* none did), end the index after the match
TokenOf(s, i, c, next) ==
    CASE c \in Letters ->
            [group |-> "tag",
             end |-> i + 1 + Min(RunLen(s, i + 1, "word"), RepeatLimit)]
      [] c = "." /\ IsNameStart(next) ->
            [group |-> "class",
             end |-> i + 2 + Min(RunLen(s, i + 2, "name"), RepeatLimit)]
      [] c = "#" /\ IsNameStart(next) ->
            [group |-> "id",
             end |-> i + 2 + Min(RunLen(s, i + 2, "name"), RepeatLimit)]
      [] c = ":" /\ IsNameStart(next) ->
            [group |-> "pclass",
             end |-> i + 2 + Min(RunLen(s, i + 2, "any"), RepeatLimit)]
      [] OTHER -> [group |-> "", end |-> i + 1]

TokenAt(s, i) == TokenOf(s, i, s[i], IF i < Len(s) THEN s[i + 1] ELSE "")

\* parsed_selector.pseudo_class = parse_pseudo_class(...)
SetPseudoClass(sel, p) ==
    IF p.err # "" THEN Raise(p.err, sel)
    ELSE Return([sel EXCEPT !.pseudo_class = p.val])

\* the body of the loop of parse_selector_token for the match of group
\* group and text text; sel is parsed_selector so far
SelectorTokenStep(group, text, sel) ==
    CASE group = "tag" -> Return([sel EXCEPT !.tag_name = text])
      [] group = "class" ->
            Return([sel EXCEPT !.filter.has_class = TRUE,
                               !.filter.class = @ \cup {Tail(text)}])
      [] group = "id" ->
            Return([sel EXCEPT !.filter.has_id = TRUE,
                               !.filter.id = Tail(text)])
      [] group = "pclass" -> SetPseudoClass(sel, parse_pseudo_class(text))
      [] OTHER -> Return(sel)

\* the loop of parse_selector_token goes on at index i unless step raised
SelectorTokenNext(s, i, step) ==
    IF step.err # "" THEN step ELSE ScanSelectorToken(s, i, step.val)

SelectorTokenAt(s, i, tok, sel) ==
    SelectorTokenNext(s, tok.end,
        SelectorTokenStep(tok.group, SubSeq(s, i, tok.end - 1), sel))

\* the loop of parse_selector_token over the matches of _TOKEN_PATTERN from
\* index i on; sel is parsed_selector so far
ScanSelectorToken(s, i, sel) ==
    IF i > Len(s) THEN Return(sel)
    ELSE SelectorTokenAt(s, i, TokenAt(s, i), sel)

parse_selector_token(selector_token) ==
    ScanSelectorToken(selector_token, 1, SelectorChain)

\* LinkSelector building the chain left to right
LinkSelector_forward(current_selector, parsed) ==
    IF current_selector.err # "" THEN Raise(current_selector.err, <<>>)
    ELSE Return(parsed \o <<current_selector.val>>)

\* current_selector.next_selector = parsed_selector
\* parsed_selector = current_selector
LinkSelector(current_selector, parsed) ==
    IF current_selector.err # "" THEN Raise(current_selector.err, <<>>)
    ELSE Return(<<current_selector.val>> \o parsed)

\* the body of the loop of parse_selector_chain for one token; parsed is
\* parsed_selector so far (<<>> is None)
ChainTokenStep(token, parsed) ==
    IF token = <<">">>
    THEN IF parsed = <<>> THEN Raise("AttributeError", <<>>)
         ELSE Return([parsed EXCEPT
                         ![1].relation_to_previous = "IMMEDIATE_CHILD"])
    ELSE LinkSelector(parse_selector_token(token), parsed)

\* the loop of parse_selector_chain goes on at index i unless step raised
ChainTokenNext(tokens, i, step) ==
    IF step.err # "" THEN step ELSE ParseChainTokens(tokens, i, step.val)

\* the loop of parse_selector_chain over selector_tokens from index i on
ParseChainTokens(tokens, i, parsed) ==
    IF i > Len(tokens) THEN Return(parsed)
    ELSE ChainTokenNext(tokens, i + 1, ChainTokenStep(tokens[i], parsed))

parse_selector_chain(selector) ==
    ParseChainTokens(StrSplit(normalize_selector_chain(selector), 1), 1, <<>>)

RECURSIVE ParsePieces(_, _, _)

\* the list comprehension of parse_selector goes on at index i unless the
\* chain c raised
ParsePiecesNext(pieces, i, acc, c) ==
    IF c.err # "" THEN Raise(c.err, <<>>)
    ELSE ParsePieces(pieces, i, Append(acc, c.val))

\* the list comprehension of parse_selector over pieces from index i on;
\* acc is the list built so far
ParsePieces(pieces, i, acc) ==
    IF i > Len(pieces) THEN Return(acc)
    ELSE ParsePiecesNext(pieces, i + 1, acc, parse_selector_chain(pieces[i]))

parse_selector(query) == ParsePieces(CommaSplit(query, 1, 1), 1, <<>>)

(***************************************************************************)
(* The node tree                                                           *)
(*                                                                         *)
(* The tree the caller passes has the nodes 1..tree.n, numbered in         *)
(* depth-first pre-order; parent[1] = 0 marks the root, and the children   *)
(* of a node are ordered by number.  node[i] holds tag, attributes and     *)
(* text of node i.                                                         *)
(***************************************************************************)
VARIABLES
    tree,       \* the tree rooted at the node passed to query_selector_all
    node_eq,    \* what Node.__eq__ compares: "identity" or "structural"
    selector,   \* the selector string passed to query_selector_all
    pc,         \* "parse", "match", "done" (returned) or "raised"
    chains,     \* the list parse_selector returned
    idx,        \* the position of the for loop of query_selector_all
    matches,    \* the list matches of query_selector_all
    error,      \* the exception that left query_selector_all, "" if none
    history     \* the calls of query_selector_all made before this one

vars == <<tree, node_eq, selector, pc, chains, idx, matches, error, history>>

\* the largest number of nodes of a tree
MaxNodes == 3

Attributes(has_class, class, has_id, id) ==
    [has_class |-> has_class, class |-> Chars(class),
     has_id |-> has_id, id |-> Chars(id)]

Node(tag, attributes, text) ==
    [tag |-> Chars(tag), attributes |-> attributes, text |-> Chars(text)]

\* the nodes a tree is built from
NodeLabels ==
    { Node("div", Attributes(FALSE, "", FALSE, ""), ""),
      Node("div", Attributes(TRUE, "b", TRUE, "j"), ""),
      Node("p",   Attributes(TRUE, "a", FALSE, ""), ""),
      Node("p",   Attributes(TRUE, "a\t b", TRUE, "i"), "") }

\* node a is node b or an ancestor of b, under the parent function f
RECURSIVE IsAncestorOrSelf(_, _, _)
IsAncestorOrSelf(f, a, b) ==
    IF b = 0 THEN FALSE
    ELSE IF a = b THEN TRUE
    ELSE IsAncestorOrSelf(f, a, f[b])

\* the parent functions of the trees of n nodes numbered in pre-order: node
\* i + 1 is a child of node i or of one of the ancestors of node i
ParentFunctions(n) ==
    { f \in [1..n -> 0..(n - 1)] :
         /\ f[1] = 0
         /\ \A i \in 2..n : f[i] >= 1 /\ f[i] < i
                            /\ IsAncestorOrSelf(f, f[i], i - 1) }

Trees ==
    UNION { { [n |-> n, parent |-> f, node |-> l] :
                f \in ParentFunctions(n), l \in [1..n -> NodeLabels] } :
            n \in 1..MaxNodes }

\* the trees of at most max nodes built from the nodes of labels
TreesOver(labels, max) ==
    UNION { { [n |-> n, parent |-> f, node |-> l] :
                f \in ParentFunctions(n), l \in [1..n -> labels] } :
            n \in 1..max }

\* the set S of numbers as the increasing sequence
RECURSIVE SortedSeq(_)
SortedSeq(S) ==
    IF S = {} THEN <<>>
    ELSE LET m == CHOOSE x \in S : \A y \in S : x <= y
         IN  <<m>> \o SortedSeq(S \ {m})

\* node.children of node i, as node numbers
Children(i) == SortedSeq({c \in 1..tree.n : tree.parent[c] = i})

(***************************************************************************)
(* Objects.  An object is a node of the caller's tree (graph 0) or a node  *)
(* of a deep copy; deepcopy of a context list copies every element into    *)
(* an object graph of its own, so that no object of the result is an       *)
(* object of the argument or of another element's copy.                    *)
(***************************************************************************)
Obj(i, g) == [node |-> i, graph |-> g]

\* deepcopy(context)
deepcopy(context) ==
    [k \in 1..Len(context) |-> Obj(context[k].node, k)]

\* o.children: the children live in the object graph of their parent
ChildrenOf(o) ==
    LET cs == Children(o.node)
    IN  [k \in 1..Len(cs) |-> Obj(cs[k], o.graph)]

\* the dataclass comparison of two nodes: tag, attributes, children, text
RECURSIVE StructEq(_, _)
StructEq(a, b) ==
    LET ca == Children(a)
        cb == Children(b)
    IN  /\ tree.node[a] = tree.node[b]
        /\ Len(ca) = Len(cb)
        /\ \A k \in 1..Len(ca) : StructEq(ca[k], cb[k])

\* x == y on Node objects
NodeEq(x, y) ==
    IF node_eq = "structural" THEN StructEq(x.node, y.node) ELSE x = y

(***************************************************************************)
(* The matcher                                                             *)
(***************************************************************************)
Last(s) == s[Len(s)]
Front(s) == SubSeq(s, 1, Len(s) - 1)
Range(s) == {s[k] : k \in 1..Len(s)}

\* match_class_selector accepting a node that has one of the classes
match_class_selector_any(node, class_set) ==
    LET attributes == tree.node[node.node].attributes
    IN  IF ~attributes.has_class THEN FALSE
        ELSE LET node_classes == Range(StrSplit(attributes.class, 1))
             IN  class_set \cap node_classes # {}

match_class_selector(node, class_set) ==
    LET attributes == tree.node[node.node].attributes
    IN  IF ~attributes.has_class THEN FALSE
        ELSE LET node_classes == Range(StrSplit(attributes.class, 1))
             IN  class_set \subseteq node_classes

\* match_id_selector accepting a node without an id attribute
match_id_selector_noattr(node, tag_id) ==
    LET attributes == tree.node[node.node].attributes
    IN  IF ~attributes.has_id THEN TRUE
        ELSE attributes.id = tag_id

match_id_selector(node, tag_id) ==
    LET attributes == tree.node[node.node].attributes
    IN  IF ~attributes.has_id THEN FALSE
        ELSE attributes.id = tag_id

match_first_child_pseudo_class_selector(node, context) ==
    IF context = <<>> THEN FALSE
    ELSE LET parent == Last(context)
         IN  NodeEq(node, ChildrenOf(parent)[1])

match_last_child_pseudo_class_selector(node, context) ==
    IF context = <<>> THEN FALSE
    ELSE LET parent == Last(context)
         IN  NodeEq(node, Last(ChildrenOf(parent)))

match_nth_child_pseudo_class_selector(node, index, context) ==
    IF context = <<>> THEN FALSE
    ELSE LET parent == Last(context)
         IN  /\ 0 < index
             /\ index <= Len(ChildrenOf(parent))
             /\ NodeEq(node, ChildrenOf(parent)[index])

RECURSIVE match_selector(_, _, _)

\* deepcopy(selector) is changed and dropped: the original selector is the
\* one matched
match_not_pseudo_class_selector(node, sel, context) ==
    ~match_selector(node, sel, context)

match_pseudo_class_selector(node, sel, context) ==
    LET pseudo_class == sel[1].pseudo_class
    IN  IF pseudo_class.type = "none" THEN TRUE
        ELSE IF context = <<>> THEN FALSE
        ELSE CASE pseudo_class.type = "first-child" ->
                    match_first_child_pseudo_class_selector(node, context)
               [] pseudo_class.type = "last-child" ->
                    match_last_child_pseudo_class_selector(node, context)
               [] pseudo_class.type = "nth-child" ->
                    match_nth_child_pseudo_class_selector(
                        node, pseudo_class.n, context)
               [] pseudo_class.type = "not" ->
                    match_not_pseudo_class_selector(
                        node, pseudo_class.arg, context)

\* sel is a chain that is not None; the term matched is its head
match_selector(node, sel, context) ==
    LET s == sel[1]
    IN  IF s.tag_name # <<>> /\ tree.node[node.node].tag # s.tag_name
        THEN FALSE
        ELSE IF s.filter.has_class
                /\ ~match_class_selector(node, s.filter.class)
        THEN FALSE
        ELSE IF s.filter.has_id /\ ~match_id_selector(node, s.filter.id)
        THEN FALSE
        ELSE match_pseudo_class_selector(node, sel, context)

\* ScanParents giving up after the nearest ancestor
ScanParents_once(parent_selector, parents) ==
    IF parents = <<>> THEN [found |-> FALSE, parents |-> <<>>]
    ELSE LET parent == Last(parents)
             rest   == Front(parents)
         IN  IF match_selector(parent, parent_selector, rest)
             THEN [found |-> TRUE, parents |-> rest]
             ELSE [found |-> FALSE, parents |-> rest]

\* the while loop of match_parent_selector: parents after the loop, with
\* found = FALSE when the loop ran to its else branch
RECURSIVE ScanParents(_, _)
ScanParents(parent_selector, parents) ==
    IF parents = <<>> THEN [found |-> FALSE, parents |-> <<>>]
    ELSE LET parent == Last(parents)
             rest   == Front(parents)
         IN  IF match_selector(parent, parent_selector, rest)
             THEN [found |-> TRUE, parents |-> rest]
             ELSE ScanParents(parent_selector, rest)

RECURSIVE match_parent_selector(_, _)

\* match_parent_selector scanning all ancestors for a `>` relation too
match_parent_selector_scan(sel, context) ==
    LET parent_selector == Tail(sel)
        parents         == deepcopy(context)
    IN  IF parent_selector = <<>> THEN TRUE
        ELSE IF parents = <<>> THEN FALSE
        ELSE LET scan == ScanParents(parent_selector, parents)
             IN  IF ~scan.found THEN FALSE
                 ELSE match_parent_selector(parent_selector, scan.parents)

\* match_parent_selector trying a farther ancestor when the chain above
\* the nearest matching one fails
match_parent_selector_backtrack(sel, context) ==
    LET parent_selector == Tail(sel)
        parents         == deepcopy(context)
    IN  IF parent_selector = <<>> THEN TRUE
        ELSE IF parents = <<>> THEN FALSE
        ELSE IF parent_selector[1].relation_to_previous = "IMMEDIATE_CHILD"
        THEN LET immediate_parent == Last(parents)
                 rest             == Front(parents)
             IN  IF ~match_selector(immediate_parent, parent_selector, rest)
                 THEN FALSE
                 ELSE match_parent_selector(parent_selector, rest)
        ELSE \E k \in 1..Len(parents) :
                /\ match_selector(parents[k], parent_selector,
                                  SubSeq(parents, 1, k - 1))
                /\ match_parent_selector(parent_selector,
                                         SubSeq(parents, 1, k - 1))

match_parent_selector(sel, context) ==
    LET parent_selector == Tail(sel)
        parents         == deepcopy(context)
    IN  IF parent_selector = <<>> THEN TRUE
        ELSE IF parents = <<>> THEN FALSE
        ELSE IF parent_selector[1].relation_to_previous = "IMMEDIATE_CHILD"
        THEN LET immediate_parent == Last(parents)
                 rest             == Front(parents)
             IN  IF ~match_selector(immediate_parent, parent_selector, rest)
                 THEN FALSE
                 ELSE match_parent_selector(parent_selector, rest)
        ELSE LET scan == ScanParents(parent_selector, parents)
             IN  IF ~scan.found THEN FALSE
                 ELSE match_parent_selector(parent_selector, scan.parents)

\* Merge without the id() set
Merge_nodedup(l, more) == l \o more

\* list l followed by the elements of more that are neither in l nor
\* earlier in more (the id() set of the two merging loops)
RECURSIVE Merge(_, _)
Merge(l, more) ==
    IF more = <<>> THEN l
    ELSE IF Head(more) \in Range(l) THEN Merge(l, Tail(more))
    ELSE Merge(Append(l, Head(more)), Tail(more))

RECURSIVE match_selector_chain(_, _, _)

\* the for loop of match_selector_chain over node.children from index k on
RECURSIVE MatchChildren(_, _, _, _, _)
MatchChildren(children, k, selector_chain, parents, found) ==
    IF k > Len(children) THEN found
    ELSE MatchChildren(children, k + 1, selector_chain, parents,
             Merge(found,
                   match_selector_chain(children[k], selector_chain, parents)))

\* match_selector_chain testing the node after its children
match_selector_chain_postorder(node, selector_chain, context) ==
    LET parents == deepcopy(context)
        found   == IF /\ match_selector(node, selector_chain, parents)
                      /\ match_parent_selector(selector_chain, parents)
                   THEN <<node>> ELSE <<>>
    IN  Merge(MatchChildren(ChildrenOf(node), 1, selector_chain,
                            Append(parents, node), <<>>),
              found)

\* match_selector_chain returning the node as it is copied with the context
match_selector_chain_copied(node, selector_chain, context) ==
    LET parents == deepcopy(context)
        copied  == Last(deepcopy(Append(context, node)))
        found   == IF /\ match_selector(node, selector_chain, parents)
                      /\ match_parent_selector(selector_chain, parents)
                   THEN <<copied>> ELSE <<>>
    IN  MatchChildren(ChildrenOf(node), 1, selector_chain,
                      Append(parents, node), found)

\* selector_chain is a chain that is not None
match_selector_chain(node, selector_chain, context) ==
    LET parents == deepcopy(context)
        found   == IF /\ match_selector(node, selector_chain, parents)
                      /\ match_parent_selector(selector_chain, parents)
                   THEN <<node>> ELSE <<>>
    IN  MatchChildren(ChildrenOf(node), 1, selector_chain,
                      Append(parents, node), found)

(***************************************************************************)
(* query_selector_all as a state machine                                   *)
(***************************************************************************)
\* the selector strings the calls are made with
Selectors ==
    { Chars(s) : s \in
        { "p", "div", ".a", ".b", ".a.b", "#i", "#j", "p.a", "p.a#i",
          "p#i.b", "div#j", "div.b#j", "p#j", "div.a", "div.a#i",
          "div > p", "div > div > p", "p > p", "div > p > p", ".b > .a",
          "div > div > div > p",
          "div p", "div .a", "p p", "#j p",
          "p, .a", "div p, div p", ".a, p, div", "#i, div > p, p",
          "h1", "#z", ".zz", "h1, p", "p.zz, div", "h1, #z",
          "> p", ">", "div, > p",
          "p:nth-child", "p:nth-child()", "p:nth-child(abc)",
          "", " \t", "div,", "div,,p", ",",
          "p:nth-child(0)", ":nth-child(1)", ":nth-child(2)",
          ":nth-child(3)", "p:nth-child(1)", "p:nth-child(4)",
          ":first-child", ":last-child", "p:first-child",
          "div:not(.b)", ":not(p)", "p:not(#i)",
          "p:not(:first-child)", "p:not(.a:nth-child(2))",
          "p:not(div a)", "p:not(div>a)", "p:not(:not(.a))",
          "div>p", "div >p", "div  >  p", " div > p ", "div\t>\tp",
          "div   p", " div p ",
          "p#i.a", "p.a#i:first-child", "p:first-child.a#i",
          "p#i:first-child.a",
          "div h1 > p" } }

Init ==
    /\ tree \in Trees
    /\ node_eq \in {"identity", "structural"}
    /\ selector \in Selectors
    /\ pc = "parse"
    /\ chains = <<>>
    /\ idx = 1
    /\ matches = <<>>
    /\ error = ""
    /\ history = <<>>

\* the tree's root, the node passed to query_selector_all
Root == Obj(1, 0)

\* parse_selector(selector) returns the list the for loop runs over
Parse ==
    /\ pc = "parse"
    /\ LET parsed == parse_selector(selector)
       IN  /\ parsed.err = ""
           /\ chains' = parsed.val
    /\ pc' = "match"
    /\ UNCHANGED <<tree, node_eq, selector, idx, matches, error, history>>

\* parse_selector(selector) raises
ParseRaise ==
    /\ pc = "parse"
    /\ LET parsed == parse_selector(selector)
       IN  /\ parsed.err # ""
           /\ error' = parsed.err
    /\ pc' = "raised"
    /\ UNCHANGED <<tree, node_eq, selector, chains, idx, matches, history>>

\* one iteration of the for loop: the matches of one chain are merged
MatchChain ==
    /\ pc = "match"
    /\ idx <= Len(chains)
    /\ chains[idx] # <<>>
    /\ LET select_matches == match_selector_chain(Root, chains[idx], <<>>)
       IN  matches' = Merge(matches, select_matches)
    /\ idx' = idx + 1
    /\ UNCHANGED <<tree, node_eq, selector, pc, chains, error, history>>

\* one iteration of the for loop with a chain that is None: match_selector
\* reads selector.tag_name
MatchRaise ==
    /\ pc = "match"
    /\ idx <= Len(chains)
    /\ chains[idx] = <<>>
    /\ error' = "AttributeError"
    /\ pc' = "raised"
    /\ UNCHANGED <<tree, node_eq, selector, chains, idx, matches, history>>

\* the for loop is over: return matches
ReturnMatches ==
    /\ pc = "match"
    /\ idx > Len(chains)
    /\ pc' = "done"
    /\ UNCHANGED <<tree, node_eq, selector, chains, idx, matches, error,
                   history>>

Next ==
    \/ Parse
    \/ ParseRaise
    \/ MatchChain
    \/ MatchRaise
    \/ ReturnMatches

Spec == Init /\ [][Next]_vars

(***************************************************************************)
(* Deeper trees.  The same calls on trees of more nodes, built from two    *)
(* kinds of node, for the chains whose cases need four or five nodes.      *)
(***************************************************************************)
\* the largest number of nodes of a deep tree
MaxDeepNodes == 5

DeepLabels ==
    { Node("div", Attributes(FALSE, "", FALSE, ""), ""),
      Node("p",   Attributes(TRUE, "a", FALSE, ""), "") }

DeepSelectors ==
    { Chars(s) : s \in
        { "div > p .a", "div > p p", "div p .a", "div > div p",
          "div:nth-child(1) > p", "div:nth-child(2) > p",
          "p:nth-child(1) > p", "div:nth-child(1) > div",
          "> p", "div," } }

InitDeep ==
    /\ tree \in TreesOver(DeepLabels, MaxDeepNodes)
    /\ node_eq \in {"identity", "structural"}
    /\ selector \in DeepSelectors
    /\ pc = "parse"
    /\ chains = <<>>
    /\ idx = 1
    /\ matches = <<>>
    /\ error = ""
    /\ history = <<>>

SpecDeep == InitDeep /\ [][Next]_vars

(***************************************************************************)
(* Several calls.  After a call has returned or raised, the caller makes   *)
(* another call of query_selector_all with the same root; history holds    *)
(* what the earlier calls were given and what they gave back.              *)
(***************************************************************************)
\* the largest number of calls that history records
MaxCalls == 2

\* the largest number of nodes of a tree that is queried several times
MaxCallNodes == 2

CallSelectors ==
    { Chars(s) : s \in { "p", "div > p", "p, div", "> p", "div," } }

\* what the call that has ended gave its caller: the list returned, or the
\* exception
Outcome ==
    [selector |-> selector,
     result   |-> IF pc = "done" THEN matches ELSE <<>>,
     error    |-> error]

InitCalls ==
    /\ tree \in TreesOver(DeepLabels, MaxCallNodes)
    /\ node_eq \in {"identity", "structural"}
    /\ selector \in CallSelectors
    /\ pc = "parse"
    /\ chains = <<>>
    /\ idx = 1
    /\ matches = <<>>
    /\ error = ""
    /\ history = <<>>

\* Call with the list matches living on from one call to the next
Call_shared ==
    /\ pc \in {"done", "raised"}
    /\ Len(history) < MaxCalls
    /\ history' = Append(history, Outcome)
    /\ selector' \in CallSelectors
    /\ pc' = "parse"
    /\ chains' = <<>>
    /\ idx' = 1
    /\ error' = ""
    /\ UNCHANGED <<tree, node_eq, matches>>

\* the next call of query_selector_all: its matches and matches_ids are
\* new and empty, and the root it is given is the root of before
Call ==
    /\ pc \in {"done", "raised"}
    /\ Len(history) < MaxCalls
    /\ history' = Append(history, Outcome)
    /\ selector' \in CallSelectors
    /\ pc' = "parse"
    /\ chains' = <<>>
    /\ idx' = 1
    /\ matches' = <<>>
    /\ error' = ""
    /\ UNCHANGED <<tree, node_eq>>

NextCalls ==
    \/ Parse
    \/ ParseRaise
    \/ MatchChain
    \/ MatchRaise
    \/ ReturnMatches
    \/ Call

SpecCalls == InitCalls /\ [][NextCalls]_vars

(***************************************************************************)
(* What the claims speak of, stated on the tree and not through the        *)
(* matcher's functions                                                     *)
(***************************************************************************)
Nodes == 1..tree.n

\* the nodes of the returned list
Result == {matches[k].node : k \in 1..Len(matches)}

\* the words of a whitespace-separated string: its maximal substrings
\* without whitespace
Words(s) ==
    { SubSeq(s, a, b) : <<a, b>> \in
        { w \in (1..Len(s)) \X (1..Len(s)) :
             /\ w[1] <= w[2]
             /\ \A k \in w[1]..w[2] : s[k] \notin Whitespace
             /\ w[1] = 1 \/ s[w[1] - 1] \in Whitespace
             /\ w[2] = Len(s) \/ s[w[2] + 1] \in Whitespace } }

\* node i has the tag, every class and the id that term t names
SatisfiesTerm(i, t) ==
    LET a == tree.node[i].attributes
    IN  /\ t.tag_name # <<>> => tree.node[i].tag = t.tag_name
        /\ t.filter.has_class =>
              /\ a.has_class
              /\ \A c \in t.filter.class : c \in Words(a.class)
        /\ t.filter.has_id => a.has_id /\ a.id = t.filter.id

\* the ancestor d levels above node i (i itself for d = 0), 0 if none
RECURSIVE AncestorAt(_, _)
AncestorAt(i, d) ==
    IF i = 0 \/ d = 0 THEN i ELSE AncestorAt(tree.parent[i], d - 1)

\* the proper ancestors of node i
ProperAncestors(i) ==
    {a \in Nodes : \E d \in 1..tree.n : AncestorAt(i, d) = a}

NoPseudoClasses(c) ==
    \A j \in 1..Len(c) : c[j].pseudo_class.type = "none"

\* the call was made with one alternative: a chain of k terms
OneChain(k) == pc = "done" /\ Len(chains) = 1 /\ Len(chains[1]) = k

\* C1: for a single-term selector with no pseudo-class the returned nodes
\* are exactly the nodes whose tag is the selector's tag (when it names one),
\* whose class attribute exists and holds every class of the selector (when
\* it names any), and whose id attribute exists and is the selector's id
\* (when it names one)
C1_SingleTerm ==
    (OneChain(1) /\ NoPseudoClasses(chains[1]))
        => Result = {i \in Nodes : SatisfiesTerm(i, chains[1][1])}

\* a call with a tag, a class and an id returned some nodes and dropped a
\* node that has the tag and every class but not the id
C1_Witness ==
    /\ OneChain(1) /\ NoPseudoClasses(chains[1])
    /\ LET t == chains[1][1]
       IN  /\ t.tag_name # <<>> /\ t.filter.has_class /\ t.filter.has_id
           /\ Result # {}
           /\ \E i \in Nodes \ Result :
                 /\ tree.node[i].tag = t.tag_name
                 /\ tree.node[i].attributes.has_class
                 /\ \A c \in t.filter.class :
                       c \in Words(tree.node[i].attributes.class)

\* every term but the rightmost one was followed by `>`
AllImmediate(c) ==
    \A j \in 2..Len(c) : c[j].relation_to_previous = "IMMEDIATE_CHILD"

\* C2: for a chain T1 > T2 > ... > Tk without pseudo-classes the returned
\* nodes are exactly the nodes that satisfy Tk, whose parent satisfies Tk-1,
\* whose grandparent satisfies Tk-2, and so on up to T1: a node with fewer
\* than k-1 ancestors is not returned, and no ancestor stands in for a
\* direct parent that does not match
C2_ChildChain ==
    \A k \in 2..(MaxNodes + 1) :
        (OneChain(k) /\ NoPseudoClasses(chains[1]) /\ AllImmediate(chains[1]))
            => Result =
                 {i \in Nodes : \A j \in 1..k :
                     /\ AncestorAt(i, j - 1) # 0
                     /\ SatisfiesTerm(AncestorAt(i, j - 1), chains[1][j])}

\* a call "T1 > T2" returned a node and left out a node that satisfies T2
\* and has a grandparent, but not a parent, that satisfies T1
C2_Witness ==
    /\ OneChain(2) /\ NoPseudoClasses(chains[1]) /\ AllImmediate(chains[1])
    /\ Result # {}
    /\ \E i \in Nodes \ Result :
          /\ SatisfiesTerm(i, chains[1][1])
          /\ AncestorAt(i, 2) # 0
          /\ SatisfiesTerm(AncestorAt(i, 2), chains[1][2])

\* root(div) > child(div) > grandchild(p)
DivDivP ==
    [n |-> 3, parent |-> <<0, 1, 2>>,
     node |-> << Node("div", Attributes(FALSE, "", FALSE, ""), ""),
                 Node("div", Attributes(FALSE, "", FALSE, ""), ""),
                 Node("p", Attributes(TRUE, "a", FALSE, ""), "") >>]

\* C3: for a selector "A B" without pseudo-classes the returned nodes are
\* exactly the nodes that satisfy B and have a proper ancestor, at any
\* depth, that satisfies A; on root(div) > child(div) > grandchild(p) both
\* "div > p" and "div p" return the grandchild
C3_Descendant ==
    /\ (/\ OneChain(2) /\ NoPseudoClasses(chains[1])
        /\ chains[1][2].relation_to_previous = "DESCENDANT")
          => Result =
               {i \in Nodes :
                   /\ SatisfiesTerm(i, chains[1][1])
                   /\ \E a \in ProperAncestors(i) :
                         SatisfiesTerm(a, chains[1][2])}
    /\ (/\ pc = "done" /\ tree = DivDivP
        /\ selector \in {Chars("div > p"), Chars("div p")})
          => Result = {3}

\* a call "A B" returned a node whose parent does not satisfy A and whose
\* grandparent does
C3_Witness ==
    /\ OneChain(2) /\ NoPseudoClasses(chains[1])
    /\ chains[1][2].relation_to_previous = "DESCENDANT"
    /\ \E i \in Result :
          /\ AncestorAt(i, 2) # 0
          /\ ~SatisfiesTerm(AncestorAt(i, 1), chains[1][2])
          /\ SatisfiesTerm(AncestorAt(i, 2), chains[1][2])

\* node a is node x or lies below it
InSubtree(a, x) == a = x \/ x \in ProperAncestors(a)

\* depth-first pre-order: a node comes before its descendants, and the
\* subtree of an earlier sibling before the subtree of a later one
Precedes(a, b) ==
    /\ a # b
    /\ \/ a \in ProperAncestors(b)
       \/ \E p \in Nodes :
             LET cs == Children(p)
             IN  \E m, n \in 1..Len(cs) :
                    m < n /\ InSubtree(a, cs[m]) /\ InSubtree(b, cs[n])

\* the ancestors of node i as the traversal holds them when it visits i:
\* from the root down to the parent of i
RECURSIVE AncestorPath(_)
AncestorPath(i) ==
    IF tree.parent[i] = 0 THEN <<>>
    ELSE Append(AncestorPath(tree.parent[i]), Obj(tree.parent[i], 0))

\* the traversal's test of node i against chain c
NodeMatches(i, c) ==
    /\ match_selector(Obj(i, 0), c, deepcopy(AncestorPath(i)))
    /\ match_parent_selector(c, deepcopy(AncestorPath(i)))

\* one iteration of the for loop of query_selector_all has run to its end
LoopStep == pc = "match" /\ idx <= Len(chains) /\ idx' = idx + 1

\* C4: the returned list never holds a node twice, and an alternative that
\* repeats an earlier one ("S, S") adds nothing to what the earlier one gave
C4_NoDuplicates ==
    [][ /\ \A j, k \in 1..Len(matches') : matches'[j] = matches'[k] => j = k
        /\ (LoopStep /\ \E j \in 1..(idx - 1) : chains[j] = chains[idx])
              => matches' = matches ]_vars

\* a call "S, S" returned at least one node
C4_Witness ==
    /\ pc = "done"
    /\ Len(chains) = 2
    /\ chains[1] = chains[2]
    /\ matches # <<>>

\* C5: each alternative, taken in the order of the query, appends to the
\* result its matches that are not yet in it, in depth-first pre-order;
\* what earlier alternatives emitted stays where it is
C5_OrderedUnion ==
    [][ LoopStep =>
          /\ Len(matches') >= Len(matches)
          /\ SubSeq(matches', 1, Len(matches)) = matches
          /\ LET new == SubSeq(matches', Len(matches) + 1, Len(matches'))
             IN  /\ Range(new) =
                       {Obj(i, 0) : i \in {n \in Nodes :
                                              NodeMatches(n, chains[idx])}}
                          \ Range(matches)
                 /\ \A j, k \in 1..Len(new) :
                       j < k => Precedes(new[j].node, new[k].node) ]_vars

\* a call with several alternatives returned two nodes of the first
\* alternative in tree order and, after them, a node of a later alternative
\* that comes before them in the tree
C5_Witness ==
    /\ pc = "done"
    /\ Len(chains) >= 2
    /\ \E j, k, l \in 1..Len(matches) :
          /\ j < k /\ k < l
          /\ NodeMatches(matches[j].node, chains[1])
          /\ NodeMatches(matches[k].node, chains[1])
          /\ ~NodeMatches(matches[l].node, chains[1])
          /\ Precedes(matches[l].node, matches[j].node)

\* the selector is made of tags, classes and ids only, separated by
\* whitespace and commas, and no comma-separated alternative is blank
PlainSelector(s) ==
    LET bounds == {0, Len(s) + 1} \cup {k \in 1..Len(s) : s[k] = ","}
    IN  /\ \A k \in 1..Len(s) :
              IsNameChar(s[k]) \/ s[k] \in {".", "#", ","} \cup Whitespace
        /\ \A lo, hi \in bounds :
              (lo < hi /\ \A m \in bounds : ~(lo < m /\ m < hi))
                 => \E k \in (lo + 1)..(hi - 1) : s[k] \notin Whitespace

\* term t names a tag, a class or an id that no node of the tree has
AbsentTerm(t) ==
    \/ t.tag_name # <<>> /\ \A i \in Nodes : tree.node[i].tag # t.tag_name
    \/ \E c \in t.filter.class :
          \A i \in Nodes : ~tree.node[i].attributes.has_class
                           \/ c \notin Words(tree.node[i].attributes.class)
    \/ t.filter.has_id
          /\ \A i \in Nodes : ~tree.node[i].attributes.has_id
                              \/ tree.node[i].attributes.id # t.filter.id

AbsentChain(c) == \E j \in 1..Len(c) : AbsentTerm(c[j])

\* C6: a selector of tags, classes and ids does not raise, and an
\* alternative that names a tag, class or id no node has adds nothing to
\* the result, so that the result is the matches of the other alternatives
C6_Absence ==
    [][ /\ PlainSelector(selector) => pc' # "raised"
        /\ (LoopStep /\ AbsentChain(chains[idx])) => matches' = matches ]_vars

\* a call that mixes an absent alternative with a matching one returned
C6_Witness ==
    /\ pc = "done"
    /\ PlainSelector(selector)
    /\ \E j \in 1..Len(chains) : AbsentChain(chains[j])
    /\ \E j \in 1..Len(chains) : ~AbsentChain(chains[j])
    /\ matches # <<>>

\* parse_selector raised: the call ended before it had a list of chains
ParseFailed == pc = "raised" /\ chains = <<>>

\* C7: parse_selector returns a sequence of chains for every selector
\* string, a chain that begins with `>` included
C7_ParseTotal == ~ParseFailed

\* the selector holds ":nth-child"
HasNthChild(s) ==
    LET w == Chars(":nth-child")
    IN  \E k \in 1..Len(s) :
           k + Len(w) - 1 <= Len(s) /\ SubSeq(s, k, k + Len(w) - 1) = w

\* C8: a selector with an :nth-child whose argument is missing or is no
\* integer is parsed without an error, and the query returns a result
C8_NthChildLenient == HasNthChild(selector) => pc # "raised"

\* the matches of the chains of cs that are not None, merged in order
RECURSIVE MatchesOfChains(_, _, _)
MatchesOfChains(cs, k, acc) ==
    IF k > Len(cs) THEN acc
    ELSE IF cs[k] = <<>> THEN MatchesOfChains(cs, k + 1, acc)
    ELSE MatchesOfChains(cs, k + 1,
             Merge(acc, match_selector_chain(Root, cs[k], <<>>)))

\* C9: a query with an empty alternative (the empty query, "div,",
\* "div,,p") does not raise and returns the matches of the other
\* alternatives
C9_EmptyChain ==
    (\E j \in 1..Len(chains) : chains[j] = <<>>)
        => /\ pc # "raised"
           /\ pc = "done" => matches = MatchesOfChains(chains, 1, <<>>)

\* C10: a term with :nth-child(n) selects, among the nodes that satisfy
\* its tag, classes and id, exactly the nodes that are the n-th child of
\* their parent: none for n = 0 or n greater than the number of children
C10_NthChild ==
    (OneChain(1) /\ chains[1][1].pseudo_class.type = "nth-child")
        => Result =
             {i \in Nodes :
                 /\ SatisfiesTerm(i, chains[1][1])
                 /\ tree.parent[i] # 0
                 /\ LET cs == Children(tree.parent[i])
                        n  == chains[1][1].pseudo_class.n
                    IN  n >= 1 /\ n <= Len(cs) /\ cs[n] = i}

\* the first and the last child of the parent of node i (0 for the root)
FirstChildOfParent(i) ==
    IF tree.parent[i] = 0 THEN 0 ELSE Children(tree.parent[i])[1]

LastChildOfParent(i) ==
    IF tree.parent[i] = 0 THEN 0 ELSE Last(Children(tree.parent[i]))

\* C11: a term with :first-child (:last-child) returns only nodes that are
\* themselves the element at index 0 (the last index) of their parent's
\* children: a sibling that has the tag, attributes, text and children of
\* the first (last) child is not returned
C11_FirstChildIdentity ==
    /\ (OneChain(1) /\ chains[1][1].pseudo_class.type = "first-child")
          => \A i \in Result : FirstChildOfParent(i) = i
    /\ (OneChain(1) /\ chains[1][1].pseudo_class.type = "last-child")
          => \A i \in Result : LastChildOfParent(i) = i

\* the root of the tree satisfies the tag, classes and id of term t and not
\* those of the term inside its :not
RootPassesNot(t) ==
    SatisfiesTerm(1, t) /\ ~SatisfiesTerm(1, t.pseudo_class.arg[1])

\* C12: :not needs no parent: "T:not(inner)" returns the root of the
\* queried tree whenever the root satisfies T's tag, classes and id and does
\* not satisfy inner
C12_NotOnRoot ==
    (/\ OneChain(1)
     /\ chains[1][1].pseudo_class.type = "not"
     /\ NoPseudoClasses(chains[1][1].pseudo_class.arg))
        => (1 \in Result <=> RootPassesNot(chains[1][1]))

\* C13: :not(inner) passes exactly when the node fails the tag, classes and
\* id of inner; a pseudo-class written inside the :not has no influence.
\* Stated for the nodes below the root, which have a parent
C13_NotSelfMatch ==
    (OneChain(1) /\ chains[1][1].pseudo_class.type = "not")
        => Result \ {1} =
             {i \in Nodes \ {1} :
                 /\ SatisfiesTerm(i, chains[1][1])
                 /\ ~SatisfiesTerm(i, chains[1][1].pseudo_class.arg[1])}

\* s holds ":not(" and, before the next closing parenthesis, whitespace, a
\* `>` or a colon: the argument is a chain or holds a pseudo-class
NotOfChain(s) ==
    LET w == Chars(":not(")
    IN  \E k \in 1..Len(s) :
           /\ k + Len(w) - 1 <= Len(s)
           /\ SubSeq(s, k, k + Len(w) - 1) = w
           /\ \E m \in (k + Len(w))..Len(s) :
                 /\ s[m] \in Whitespace \cup {">", ":"}
                 /\ \A q \in (k + Len(w))..m : s[q] # ")"

\* C14: a selector whose :not argument holds a chain, a combinator or a
\* nested pseudo-class is parsed and queried without an error
C14_NotDegrades == NotOfChain(selector) => pc # "raised"

\* the selector is one chain of terms without pseudo-classes: no comma, no
\* colon and no parenthesis is written in it
ChainOnly(s) == \A k \in 1..Len(s) : s[k] \notin {",", ":", "(", ")"}

\* the index of the last character of the term that starts at index i of s:
\* a term ends before whitespace, before a `>` or at the end of s
TermEnd(s, i) ==
    CHOOSE e \in i..Len(s) :
        /\ \A k \in i..e : s[k] \notin Whitespace \cup {">"}
        /\ e = Len(s) \/ s[e + 1] \in Whitespace \cup {">"}

\* what is written in s from index i on, whitespace left out: the terms
\* and the `>` signs, left to right
RECURSIVE WrittenTokens(_, _)
WrittenTokens(s, i) ==
    IF i > Len(s) THEN <<>>
    ELSE IF s[i] \in Whitespace THEN WrittenTokens(s, i + 1)
    ELSE IF s[i] = ">" THEN <<SubSeq(s, i, i)>> \o WrittenTokens(s, i + 1)
    ELSE <<SubSeq(s, i, TermEnd(s, i))>>
            \o WrittenTokens(s, TermEnd(s, i) + 1)

\* s and v differ only in whitespace: in its amount between two terms,
\* around a `>`, at the start or at the end
SameUpToWhitespace(s, v) ==
    /\ ChainOnly(s)
    /\ ChainOnly(v)
    /\ WrittenTokens(s, 1) = WrittenTokens(v, 1)

\* for each selector the calls are made with, the other ones that differ
\* from it only in whitespace
WhitespaceVariants ==
    [s \in Selectors |-> {v \in Selectors \ {s} : SameUpToWhitespace(s, v)}]

\* parse_selector returned: the for loop runs or has ended
Parsed == pc \in {"match", "done"}

\* what parse_selector gives for each selector the calls are made with
ParsedAs == [s \in Selectors |-> parse_selector(s)]

\* C15: two selectors that differ only in whitespace (its amount between
\* terms, around `>`, at the start or the end) parse to the same chains and
\* return the same nodes in the same order on every tree
C15_Whitespace ==
    Parsed =>
        \A v \in WhitespaceVariants[selector] :
            /\ ParsedAs[v] = Return(chains)
            /\ pc = "done" =>
                  matches = MatchesOfChains(ParsedAs[v].val, 1, <<>>)

\* a call "A > B" written with tabs or with whitespace before the first
\* term returned a node, and the selectors hold other writings of it
C15_Witness ==
    /\ OneChain(2) /\ AllImmediate(chains[1])
    /\ selector[1] \in Whitespace \/ \E k \in 1..Len(selector) : selector[k] = "\t"
    /\ Cardinality(WhitespaceVariants[selector]) >= 3
    /\ matches # <<>>

\* the selector is one term: no whitespace, `>`, comma or parenthesis
OneTermText(s) ==
    \A k \in 1..Len(s) : s[k] \notin Whitespace \cup {">", ",", "(", ")"}

\* where the suffixes of a term begin: at each `.`, `#` and `:`
SuffixStarts(s) == {k \in 1..Len(s) : s[k] \in {".", "#", ":"}}

\* the index of the last character of the part of s that starts at index k
PartEnd(s, k) ==
    CHOOSE e \in k..Len(s) :
        /\ \A q \in (k + 1)..e : q \notin SuffixStarts(s)
        /\ e = Len(s) \/ (e + 1) \in SuffixStarts(s)

\* the tag written at the start of term s (empty when it starts with a
\* suffix) and the set of its suffixes
TagWritten(s) ==
    IF s = <<>> \/ 1 \in SuffixStarts(s) THEN <<>>
    ELSE SubSeq(s, 1, PartEnd(s, 1))

SuffixesWritten(s) == {SubSeq(s, k, PartEnd(s, k)) : k \in SuffixStarts(s)}

\* s and v are one term each, made of the same tag and the same suffixes
SameSuffixes(s, v) ==
    /\ OneTermText(s)
    /\ OneTermText(v)
    /\ Len(s) = Len(v)
    /\ TagWritten(s) = TagWritten(v)
    /\ SuffixesWritten(s) = SuffixesWritten(v)

\* for each selector the calls are made with, the other ones that are the
\* same term with its suffixes in another order
SuffixOrders ==
    [s \in Selectors |-> {v \in Selectors \ {s} : SameSuffixes(s, v)}]

\* C16: two terms made of the same tag and the same class, id and
\* pseudo-class suffixes in different orders parse to the same term and
\* select the same nodes
C16_SuffixOrder ==
    Parsed =>
        \A v \in SuffixOrders[selector] :
            /\ ParsedAs[v] = Return(chains)
            /\ pc = "done" =>
                  matches = MatchesOfChains(ParsedAs[v].val, 1, <<>>)

\* the positions of the terms among the written tokens toks, left to right
TermPositions(toks) ==
    SortedSeq({k \in 1..Len(toks) : toks[k] # <<">">>})

\* the term written at position q of toks, as parse_selector_chain is to
\* hold it: the term parse_selector_token builds from its text, with the
\* immediate relation when a `>` is written right after it and the default
\* relation otherwise
TermAsWritten(toks, q) ==
    [parse_selector_token(toks[q]).val EXCEPT
        !.relation_to_previous =
            IF q < Len(toks) /\ toks[q + 1] = <<">">>
            THEN "IMMEDIATE_CHILD" ELSE "DESCENDANT"]

\* chain c holds the terms of toks right to left: its head is the last
\* term written and the next of each term is the term written left of it
RightToLeft(c, toks) ==
    LET at == TermPositions(toks)
    IN  /\ Len(c) = Len(at)
        /\ \A j \in 1..Len(c) :
              c[j] = TermAsWritten(toks, at[Len(at) - j + 1])

RECURSIVE NearestAncestor(_, _)
NearestAncestor(i, t) ==
    IF tree.parent[i] = 0 THEN 0
    ELSE IF SatisfiesTerm(tree.parent[i], t) THEN tree.parent[i]
    ELSE NearestAncestor(tree.parent[i], t)

\* node a, the ancestor committed to, has above it what term t asks for: a
\* parent that satisfies t for the immediate relation, some proper ancestor
\* that satisfies t for the default one
AboveSatisfies(a, t) ==
    IF t.relation_to_previous = "IMMEDIATE_CHILD"
    THEN tree.parent[a] # 0 /\ SatisfiesTerm(tree.parent[a], t)
    ELSE \E x \in ProperAncestors(a) : SatisfiesTerm(x, t)

\* C18: for "X > A B" and "X A B" without pseudo-classes the returned nodes
\* are exactly the nodes that satisfy B, have an ancestor that satisfies A,
\* and whose NEAREST such ancestor has above it what X asks for; a node
\* whose nearest A-ancestor fails that is not returned, even when a farther
\* A-ancestor passes
C18_NearestAncestor ==
    (/\ OneChain(3) /\ NoPseudoClasses(chains[1])
     /\ chains[1][2].relation_to_previous = "DESCENDANT")
        => Result =
             {i \in Nodes :
                 /\ SatisfiesTerm(i, chains[1][1])
                 /\ NearestAncestor(i, chains[1][2]) # 0
                 /\ AboveSatisfies(NearestAncestor(i, chains[1][2]),
                                   chains[1][3])}

\* a call "X > A B" returned a node and left out a node that satisfies B,
\* whose nearest A-ancestor is no child of an X and which has a farther
\* A-ancestor that is a child of an X
C18_Witness ==
    /\ OneChain(3) /\ NoPseudoClasses(chains[1])
    /\ chains[1][2].relation_to_previous = "DESCENDANT"
    /\ chains[1][3].relation_to_previous = "IMMEDIATE_CHILD"
    /\ Result # {}
    /\ \E i \in Nodes \ Result :
          /\ SatisfiesTerm(i, chains[1][1])
          /\ NearestAncestor(i, chains[1][2]) # 0
          /\ \E b \in ProperAncestors(i) :
                /\ SatisfiesTerm(b, chains[1][2])
                /\ AboveSatisfies(b, chains[1][3])

\* node p is the n-th child of its parent
IsNthChild(p, n) ==
    /\ tree.parent[p] # 0
    /\ n >= 1
    /\ n <= Len(Children(tree.parent[p]))
    /\ Children(tree.parent[p])[n] = p

\* C20: for "A:nth-child(n) > B" the returned nodes are exactly the nodes
\* that satisfy B, whose parent satisfies A and whose parent is the n-th
\* child of the grandparent; a node whose parent is the root of the queried
\* tree is not returned
C20_AncestorPseudoClass ==
    (/\ OneChain(2)
     /\ chains[1][1].pseudo_class.type = "none"
     /\ chains[1][2].relation_to_previous = "IMMEDIATE_CHILD"
     /\ chains[1][2].pseudo_class.type = "nth-child")
        => Result =
             {i \in Nodes :
                 /\ SatisfiesTerm(i, chains[1][1])
                 /\ tree.parent[i] # 0
                 /\ SatisfiesTerm(tree.parent[i], chains[1][2])
                 /\ IsNthChild(tree.parent[i], chains[1][2].pseudo_class.n)}

\* C21: every element of the list query_selector_all builds is a node
\* object of the tree it was given (the root or a descendant of it), never
\* one of the deep copies the matcher makes of the ancestors, and satisfies
\* the tag, classes and id of the head term of at least one alternative
C21_OriginalNodes ==
    \A k \in 1..Len(matches) :
        /\ matches[k].graph = 0
        /\ matches[k].node \in Nodes
        /\ \E j \in 1..Len(chains) :
              /\ chains[j] # <<>>
              /\ SatisfiesTerm(matches[k].node, chains[j][1])

\* a call with several alternatives returned a node below the root for a
\* chain of several terms, which the matcher tested against deep copies of
\* its ancestors, and a node that satisfies the head term of one
\* alternative and not that of another
C21_Witness ==
    /\ pc = "done"
    /\ Len(chains) >= 2
    /\ \E k \in 1..Len(matches) :
          /\ tree.parent[matches[k].node] # 0
          /\ \E j \in 1..Len(chains) :
                Len(chains[j]) >= 2 /\ NodeMatches(matches[k].node, chains[j])
    /\ \E k \in 1..Len(matches) :
          \E j, l \in 1..Len(chains) :
             /\ SatisfiesTerm(matches[k].node, chains[j][1])
             /\ ~SatisfiesTerm(matches[k].node, chains[l][1])

=============================================================================
